---------------------------- MODULE Spec2Model ----------------------------
(***************************************************************************)
(* Model of src/project1.py: the synthetic-data generator                 *)
(* (create_dummy_data), the analyzer (process_and_analyze) and the script  *)
(* body (__main__), over a small file system.                              *)
(*                                                                         *)
(* Numbers.  Current values are held in units of 1/49 A and voltage values *)
(* in units of 1/49 V, so that np.linspace(0, 10, 50) and current * 5 are  *)
(* exact integers.  A float that is NaN is the record NaN; any other float *)
(* n is Num(n).  On disk a cell is text: the empty text <<>> or the        *)
(* decimal text <<n>> of a number.                                         *)
(***************************************************************************)
EXTENDS Integers, Sequences, FiniteSets, TLC

(***************************************************************************)
(* Bounds of the checked instances (not program constants).                *)
(***************************************************************************)
\* longest data section of a file present before the program starts
MaxRows == 2
\* largest number found in a cell of such a file
MaxVal == 2

(***************************************************************************)
(* Program constants.                                                      *)
(***************************************************************************)
\* np.linspace(0, 10, 50): start, stop, num
LinStart == 0
LinStop == 10
NumPoints == 50
\* resistance = 5
Resistance == 5
\* voltage[5] = np.nan ; voltage[15] = np.nan   (0-based indices)
NanIndexA == 5
NanIndexB == 15

\* data_file = 'experiment_data.csv'
data_file == "experiment_data.csv"
\* some other path a caller of the two functions may pass
other_file == "other.csv"
Paths == {data_file, other_file}

\* the header df.to_csv writes for the dict keys of `data`
GenColumns == <<"Current_A", "Voltage_V">>

(***************************************************************************)
(* Floats and CSV text.                                                    *)
(***************************************************************************)
NaN == [nan |-> TRUE, val |-> 0]
Num(n) == [nan |-> FALSE, val |-> n]

\* df.to_csv: NaN is written as the empty field, a number as its text
FormatCell(v) == IF v.nan THEN <<>> ELSE <<v.val>>
\* pd.read_csv: the empty field is read as NaN, numeric text as the number
ParseCell(c) == IF c = <<>> THEN NaN ELSE Num(c[1])

\* a file that does not exist
Absent == [exists |-> FALSE, header |-> <<>>, rows |-> <<>>]
File(h, rs) == [exists |-> TRUE, header |-> h, rows |-> rs]

\* os.path.exists
PathExists(fsys, p) == fsys[p].exists

\* DataFrame.to_csv(filename, index=False): header line, then one line per row
ToCsv(frame) ==
  File(frame.columns,
       [k \in 1..Len(frame.rows) |->
          [j \in 1..Len(frame.columns) |-> FormatCell(frame.rows[k][j])]])

\* pd.read_csv(filename): first line is the header, every other line a row
ReadCsv(f) ==
  [columns |-> f.header,
   rows |-> [k \in 1..Len(f.rows) |->
               [j \in 1..Len(f.header) |-> ParseCell(f.rows[k][j])]]]

(***************************************************************************)
(* DataFrame operations.                                                   *)
(***************************************************************************)
\* variant: a zero is taken for a missing value as well (a truthiness test)
RowHasNullOrZero(row) == \E j \in 1..Len(row) : row[j].nan \/ row[j].val = 0

\* a row has a missing value in some field
RowHasNull(row) == \E j \in 1..Len(row) : row[j].nan

\* df.isnull().values.any()
AnyNull(frame) == \E k \in 1..Len(frame.rows) : RowHasNull(frame.rows[k])

RECURSIVE KeepComplete(_)
\* the rows without a missing value, in their order
KeepComplete(rs) ==
  IF rs = <<>> THEN <<>>
  ELSE IF RowHasNull(Head(rs)) THEN KeepComplete(Tail(rs))
       ELSE <<Head(rs)>> \o KeepComplete(Tail(rs))

\* variant: df.dropna(how='all'), which drops a row only if every field is missing
DropNaAllMissing(frame) ==
  [columns |-> frame.columns,
   rows |-> SelectSeq(frame.rows, LAMBDA row : \E j \in 1..Len(row) : ~row[j].nan)]

\* df.dropna()
DropNa(frame) == [columns |-> frame.columns, rows |-> KeepComplete(frame.rows)]

\* variant: df.dropna() called without assigning its result
CleanedDiscarded(frame) == frame

\* the cleaning step: if df.isnull().values.any(): df = df.dropna()
Cleaned(frame) == IF AnyNull(frame) THEN DropNa(frame) ELSE frame

\* df.shape
Shape(frame) == <<Len(frame.rows), Len(frame.columns)>>

\* variant: columns taken by position (df.iloc[:, 0], df.iloc[:, 1])
ColumnIndexByPosition(frame, name) == IF name = "Current_A" THEN 1 ELSE 2

HasColumn(frame, name) == \E j \in 1..Len(frame.columns) : frame.columns[j] = name
ColumnIndex(frame, name) ==
  CHOOSE j \in 1..Len(frame.columns) : frame.columns[j] = name
\* df[name].values
ColumnValues(frame, name) ==
  [k \in 1..Len(frame.rows) |-> frame.rows[k][ColumnIndex(frame, name)]]


(***************************************************************************)
(* create_dummy_data: the synthetic dataset.                               *)
(***************************************************************************)
\* np.linspace(start, stop, num)[k-1], in units of 1/(num-1)
Linspace(start, stop, num, k) == start * (num - 1) + (k - 1) * (stop - start)

\* current = np.linspace(0, 10, 50), in units of 1/49 A
GenCurrent == [k \in 1..NumPoints |-> Linspace(LinStart, LinStop, NumPoints, k)]

\* np.random.seed(42); noise = np.random.normal(0, 2.5, 50): the first 50
\* normal deviates of the seeded generator, scaled by 2.5, in units of
\* 1/49 V rounded to the nearest unit
Noise ==
  << 61, -17, 79, 187, -29, -29, 193, 94, -58, 66,
     -57, -57, 30, -234, -211, -69, -124, 38, -111, -173,
     180, -28, 8, -175, -67, 14, -141, 46, -74, -36,
     -74, 227, -2, -130, 101, -150, 26, -240, -163, 24,
     90, 21, -14, -37, -181, -88, -56, 129, 42, -216 >>

\* variant: the resistance factor left out
OhmVoltageNoResistance(k) == GenCurrent[k] + Noise[k]

\* voltage = current * resistance + noise, before the missing values are set
OhmVoltage(k) == GenCurrent[k] * Resistance + Noise[k]

\* variant: the indices 5 and 15 taken as 1-based positions
GenVoltageOneBased ==
  [k \in 1..NumPoints |->
     IF k \in {NanIndexA, NanIndexB} THEN NaN ELSE Num(OhmVoltage(k))]

\* the 0-based indices assigned np.nan
NanIndices == {NanIndexA, NanIndexB}

\* voltage after voltage[5] = np.nan and voltage[15] = np.nan
GenVoltage ==
  [k \in 1..NumPoints |-> IF (k - 1) \in NanIndices THEN NaN ELSE Num(OhmVoltage(k))]

\* df = pd.DataFrame({'Current_A': current, 'Voltage_V': voltage})
GenFrame ==
  [columns |-> GenColumns,
   rows |-> [k \in 1..NumPoints |-> <<Num(GenCurrent[k]), GenVoltage[k]>>]]

(***************************************************************************)
(* NumPy reductions.  A result is kept exactly, as the sums it is made of: *)
(* mean = s/n, variance = ss/n - (s/n)^2, and so on.  `nan` says that the  *)
(* float result is NaN (an empty array, or a NaN among the elements).      *)
(***************************************************************************)
AnyNaN(xs) == \E k \in 1..Len(xs) : xs[k].nan

RECURSIVE SumProd(_, _, _)
\* sum of xs[k].val * ys[k].val for k in 1..n
SumProd(xs, ys, n) ==
  IF n = 0 THEN 0 ELSE SumProd(xs, ys, n - 1) + xs[n].val * ys[n].val

Ones(xs) == [k \in 1..Len(xs) |-> Num(1)]
Sum(xs) == SumProd(xs, Ones(xs), Len(xs))
SumSq(xs) == SumProd(xs, xs, Len(xs))

NoStats == [nan |-> TRUE, n |-> 0, sum_v |-> 0, sumsq_v |-> 0, sum_i |-> 0]
\* np.mean(voltage), np.mean(current), np.var(voltage), np.std(voltage)
Statistics(cur, vol) ==
  IF Len(vol) = 0 \/ AnyNaN(vol) \/ AnyNaN(cur) THEN NoStats
  ELSE [nan |-> FALSE, n |-> Len(vol), sum_v |-> Sum(vol),
        sumsq_v |-> SumSq(vol), sum_i |-> Sum(cur)]

NoMoments ==
  [nan |-> TRUE, n |-> 0, sx |-> 0, sy |-> 0, sxx |-> 0, sxy |-> 0, syy |-> 0]
Moments(xs, ys) ==
  IF Len(xs) = 0 \/ AnyNaN(xs) \/ AnyNaN(ys) THEN NoMoments
  ELSE [nan |-> FALSE, n |-> Len(xs), sx |-> Sum(xs), sy |-> Sum(ys),
        sxx |-> SumSq(xs), sxy |-> SumProd(xs, ys, Len(xs)), syy |-> SumSq(ys)]

\* np.corrcoef(current, voltage)[0, 1]
CorrCoef(cur, vol) == Moments(cur, vol)

\* np.polyfit(current, voltage, 1): m = (n sxy - sx sy) / (n sxx - sx^2),
\* b = (sy - m sx) / n
PolyFit(cur, vol) == Moments(cur, vol)

(***************************************************************************)
(* Name resolution in process_and_analyze.                                 *)
(***************************************************************************)
\* parameters and assigned names of process_and_analyze
AnalyzeLocals ==
  {"filename", "df", "current", "voltage", "mean_v", "mean_i", "var_v",
   "std_v", "correlation", "m", "b"}
\* names bound at module level (imports, defs, and data_file in a script run)
ModuleGlobals ==
  {"pd", "np", "plt", "os", "create_dummy_data", "process_and_analyze", "data_file"}
\* whether evaluating `name` inside process_and_analyze finds a binding
NameBound(name) == name \in AnalyzeLocals \cup ModuleGlobals

(***************************************************************************)
(* State.                                                                  *)
(***************************************************************************)
VARIABLES
  entry,        \* what was invoked: the script, or one function by a caller
  pc,           \* the statement about to run
  filename,     \* the `filename` argument of the function running
  fs,           \* the file system: path -> file
  fs0,          \* the file system when the program started
  io,           \* the file-system calls made so far, in order
  out,          \* the lines printed so far, in order
  df,           \* process_and_analyze: the DataFrame bound to df
  current,      \* process_and_analyze: the array bound to current
  voltage,      \* process_and_analyze: the array bound to voltage
  stats,        \* mean_v, mean_i, var_v, std_v
  correlation,  \* correlation
  fit,          \* m, b
  figure,       \* the matplotlib figure
  exc           \* the exception that ended the run, or "none"

vars ==
  <<entry, pc, filename, fs, fs0, io, out, df, current, voltage, stats,
    correlation, fit, figure, exc>>

analysis == <<df, current, voltage, stats, correlation, fit, figure>>

(***************************************************************************)
(* Files that may be present before the program starts.                    *)
(***************************************************************************)
SeqsUpTo(S, n) == UNION {[1..k -> S] : k \in 0..n}
DiskCells == {<<>>} \cup {<<v>> : v \in 1..MaxVal}
DiskRows == [1..2 -> DiskCells]
\* the generator's columns in the other order, and columns of another dataset
SwappedColumns == <<"Voltage_V", "Current_A">>
ForeignColumns == <<"Time_s", "Voltage_V">>
\* the measurements with every voltage present (no value set to np.nan)
CompleteFrame ==
  [columns |-> GenColumns,
   rows |-> [k \in 1..NumPoints |-> <<Num(GenCurrent[k]), Num(OhmVoltage(k))>>]]
InputFiles ==
  {Absent}
    \cup {File(GenColumns, rs) : rs \in SeqsUpTo(DiskRows, MaxRows)}
    \cup {File(h, rs) : h \in {SwappedColumns, ForeignColumns},
                        rs \in SeqsUpTo(DiskRows, MaxRows - 1)}
    \cup {ToCsv(GenFrame), ToCsv(DropNa(GenFrame)), ToCsv(CompleteFrame)}
\* what the path that is not the run's target may hold
BystanderFiles == {Absent, File(GenColumns, << <<<<1>>, <<>>>> >>)}

NoFrame == [columns |-> <<>>, rows |-> <<>>]
NoFigure ==
  [open |-> FALSE, scatter |-> FALSE, line |-> FALSE, title |-> FALSE,
   xlabel |-> FALSE, ylabel |-> FALSE, legend |-> FALSE, grid |-> FALSE,
   shown |-> FALSE]

Line(msg, a, b) == [msg |-> msg, a |-> a, b |-> b]
\* a file-system call: which, on what path, made by which function
Call(op, path, by) == [op |-> op, path |-> path, by |-> by]

Init ==
  /\ entry \in {"script", "analyze", "generate"}
  /\ pc = CASE entry = "script" -> "main"
            [] entry = "analyze" -> "analyze"
            [] entry = "generate" -> "create"
  /\ filename \in (IF entry = "script" THEN {"unset"} ELSE Paths)
  /\ \E target \in Paths, f \in InputFiles, g \in BystanderFiles :
       /\ target = (IF entry = "script" THEN data_file ELSE filename)
       /\ fs = [p \in Paths |-> IF p = target THEN f ELSE g]
  /\ fs0 = fs
  /\ io = <<>>
  /\ out = <<>>
  /\ df = NoFrame
  /\ current = <<>>
  /\ voltage = <<>>
  /\ stats = NoStats
  /\ correlation = NoMoments
  /\ fit = NoMoments
  /\ figure = NoFigure
  /\ exc = "none"

(***************************************************************************)
(* __main__                                                                *)
(***************************************************************************)
\* variant: the generator is run whether or not the file exists
MainAlwaysCreates ==
  /\ pc = "main"
  /\ filename' = data_file
  /\ io' = Append(io, Call("exists", data_file, "__main__"))
  /\ pc' = "create"
  /\ UNCHANGED <<entry, fs, fs0, out, analysis, exc>>

\* data_file = 'experiment_data.csv'; if not os.path.exists(data_file): ...
Main ==
  /\ pc = "main"
  /\ filename' = data_file
  /\ io' = Append(io, Call("exists", data_file, "__main__"))
  /\ pc' = IF ~PathExists(fs, data_file) THEN "create" ELSE "analyze"
  /\ UNCHANGED <<entry, fs, fs0, out, analysis, exc>>

(***************************************************************************)
(* create_dummy_data(filename)                                             *)
(***************************************************************************)
CreateDummyData ==
  /\ pc = "create"
  /\ fs' = [fs EXCEPT ![filename] = ToCsv(GenFrame)]
  /\ io' = Append(io, Call("write", filename, "create_dummy_data"))
  /\ out' = Append(out, Line("Created dummy dataset", 0, 0))
  \* the script goes on to process_and_analyze(data_file)
  /\ pc' = IF entry = "script" THEN "analyze" ELSE "done"
  /\ UNCHANGED <<entry, filename, fs0, analysis, exc>>

(***************************************************************************)
(* process_and_analyze(filename)                                           *)
(***************************************************************************)
\* variant: the not-found branch prints its message and does not return
IngestWithoutReturn ==
  /\ pc = "analyze"
  /\ io' = Append(io, Call("exists", filename, "process_and_analyze"))
  /\ out' = IF ~PathExists(fs, filename)
              THEN Append(out, Line("Error: File not found", 0, 0))
              ELSE out
  /\ pc' = "load"
  /\ UNCHANGED <<entry, filename, fs, fs0, analysis, exc>>

\* 1. Ingest: if not os.path.exists(filename): print(...); return
Ingest ==
  /\ pc = "analyze"
  /\ io' = Append(io, Call("exists", filename, "process_and_analyze"))
  /\ IF ~PathExists(fs, filename)
       THEN /\ out' = Append(out, Line("Error: File not found", 0, 0))
            /\ pc' = "done"
       ELSE /\ out' = out
            /\ pc' = "load"
  /\ UNCHANGED <<entry, filename, fs, fs0, analysis, exc>>

\* print("Loading..."); df = pd.read_csv(filename); print("Raw data shape:", df.shape)
Load ==
  /\ pc = "load"
  /\ io' = Append(io, Call("read", filename, "process_and_analyze"))
  /\ df' = ReadCsv(fs[filename])
  /\ out' = out \o <<Line("Loading data", 0, 0),
                     Line("Raw data shape", Shape(df')[1], Shape(df')[2])>>
  /\ pc' = "clean"
  /\ UNCHANGED <<entry, filename, fs, fs0, current, voltage, stats, correlation,
                 fit, figure, exc>>

\* variant: the cleaned data are saved back over the input file
CleanAndSave ==
  /\ pc = "clean"
  /\ df' = Cleaned(df)
  /\ fs' = [fs EXCEPT ![filename] = ToCsv(df')]
  /\ io' = Append(io, Call("write", filename, "process_and_analyze"))
  /\ out' = out
            \o (IF AnyNull(df) THEN <<Line("Missing values detected", 0, 0)>> ELSE <<>>)
            \o <<Line("Cleaned data shape", Shape(df')[1], Shape(df')[2])>>
  /\ pc' = "extract"
  /\ UNCHANGED <<entry, filename, fs0, current, voltage, stats, correlation,
                 fit, figure, exc>>

\* 2. if df.isnull().values.any(): print(...); df = df.dropna()
\*    print("Cleaned data shape:", df.shape)
Clean ==
  /\ pc = "clean"
  /\ df' = Cleaned(df)
  /\ out' = out
            \o (IF AnyNull(df) THEN <<Line("Missing values detected", 0, 0)>> ELSE <<>>)
            \o <<Line("Cleaned data shape", Shape(df')[1], Shape(df')[2])>>
  /\ pc' = "extract"
  /\ UNCHANGED <<entry, filename, fs, fs0, io, current, voltage, stats, correlation,
                 fit, figure, exc>>

\* current = df['Current_A'].values; voltage = df['Voltage_V'].values
Extract ==
  /\ pc = "extract"
  /\ IF HasColumn(df, "Current_A") /\ HasColumn(df, "Voltage_V")
       THEN /\ current' = ColumnValues(df, "Current_A")
            /\ voltage' = ColumnValues(df, "Voltage_V")
            /\ pc' = "stats"
            /\ exc' = exc
       ELSE /\ UNCHANGED <<current, voltage>>
            /\ pc' = "raised"
            /\ exc' = "KeyError"
  /\ UNCHANGED <<entry, filename, fs, fs0, io, out, df, stats, correlation, fit, figure>>

\* 3. mean, variance, standard deviation, correlation, and their prints
Analyze ==
  /\ pc = "stats"
  /\ stats' = Statistics(current, voltage)
  /\ correlation' = CorrCoef(current, voltage)
  /\ out' = out \o <<Line("--- Statistical Analysis ---", 0, 0),
                     Line("Voltage Mean", 0, 0),
                     Line("Voltage Variance", 0, 0),
                     Line("Voltage Std Dev", 0, 0),
                     Line("Correlation (Current vs Voltage)", 0, 0)>>
  /\ pc' = "scatter"
  /\ UNCHANGED <<entry, filename, fs, fs0, io, df, current, voltage, fit, figure, exc>>

\* 4. plt.figure(figsize=(10, 6)); plt.scatter(current, voltage, ...)
Scatter ==
  /\ pc = "scatter"
  /\ figure' = [figure EXCEPT !.open = TRUE, !.scatter = TRUE]
  /\ pc' = "polyfit"
  /\ UNCHANGED <<entry, filename, fs, fs0, io, out, df, current, voltage, stats,
                 correlation, fit, exc>>

\* m, b = np.polyfit(current, voltage, 1); polyfit raises TypeError
\* ("expected non-empty vector for x") on an empty array
Fit ==
  /\ pc = "polyfit"
  /\ IF Len(current) = 0
       THEN /\ fit' = fit
            /\ pc' = "raised"
            /\ exc' = "TypeError"
       ELSE /\ fit' = PolyFit(current, voltage)
            /\ pc' = "plot"
            /\ exc' = exc
  /\ UNCHANGED <<entry, filename, fs, fs0, io, out, df, current, voltage, stats,
                 correlation, figure>>

\* plt.plot(current, m*current + b, ..., label=f'Linear Fit (R={resistance}...)')
\* then title, xlabel, ylabel, legend, grid, tight_layout, show.  The label's
\* f-string reads the name `resistance`; an unbound name raises NameError
\* before plt.plot is called.
PlotAndShow ==
  /\ pc = "plot"
  /\ IF NameBound("resistance")
       THEN /\ figure' = [figure EXCEPT !.line = TRUE, !.title = TRUE,
                            !.xlabel = TRUE, !.ylabel = TRUE, !.legend = TRUE,
                            !.grid = TRUE, !.shown = TRUE]
            /\ pc' = "done"
            /\ exc' = exc
       ELSE /\ figure' = figure
            /\ pc' = "raised"
            /\ exc' = "NameError"
  /\ UNCHANGED <<entry, filename, fs, fs0, io, out, df, current, voltage, stats,
                 correlation, fit>>

Next ==
  \/ Main
  \/ CreateDummyData
  \/ Ingest
  \/ Load
  \/ Clean
  \/ Extract
  \/ Analyze
  \/ Scatter
  \/ Fit
  \/ PlotAndShow

Spec == Init /\ [][Next]_vars

(***************************************************************************)
(* Vocabulary of the properties.                                           *)
(***************************************************************************)
Terminated == pc \in {"done", "raised"}

\* process_and_analyze has run its existence check
AnalyzerEntered ==
  \E k \in 1..Len(io) : io[k] = Call("exists", filename, "process_and_analyze")

CallsOf(op) == {k \in 1..Len(io) : io[k].op = op}
Printed(msg) == {k \in 1..Len(out) : out[k].msg = msg}
\* the number printed on the (single) line `msg`
Reported(msg) == out[CHOOSE k \in Printed(msg) : TRUE].a

\* the statements of process_and_analyze after the arrays are extracted
AfterExtraction ==
  pc \in {"stats", "scatter", "polyfit", "plot"}
    \/ (Terminated /\ Printed("Cleaned data shape") # {} /\ exc # "KeyError")

\* a line of the file has an empty field
MissingOnDisk(line) == \E j \in 1..Len(line) : line[j] = <<>>
\* the lines of file f that are complete
CompleteLines(f) == {k \in 1..Len(f.rows) : ~MissingOnDisk(f.rows[k])}
\* where column `name` stands in the header of file f
FieldOf(f, name) == CHOOSE j \in 1..Len(f.header) : f.header[j] = name
HasFields(f) ==
  /\ \E j \in 1..Len(f.header) : f.header[j] = "Current_A"
  /\ \E j \in 1..Len(f.header) : f.header[j] = "Voltage_V"

\* the file the generator writes, and its cleaned form written back
GeneratedFile == ToCsv(GenFrame)

(***************************************************************************)
(* C1.  Called with a path at which no file exists, process_and_analyze    *)
(* prints the not-found message and returns normally; it loads nothing,    *)
(* reports no row count or statistic, computes no fit and makes no plot.   *)
(***************************************************************************)
C1_MissingFileReturns ==
  (AnalyzerEntered /\ ~PathExists(fs, filename)) =>
    /\ pc = "done"
    /\ exc = "none"
    /\ Printed("Error: File not found") = {Len(out)}
    /\ \A k \in 1..Len(out) :
         out[k].msg \in {"Error: File not found", "Created dummy dataset"}
    /\ CallsOf("read") = {}
    /\ df = NoFrame /\ current = <<>> /\ voltage = <<>>
    /\ stats = NoStats /\ correlation = NoMoments /\ fit = NoMoments
    /\ figure = NoFigure
    /\ fs = fs0

C1_Witness ==
  /\ entry = "analyze"
  /\ AnalyzerEntered
  /\ ~PathExists(fs, filename)
  /\ pc = "done"
  /\ Len(out) = 1

(***************************************************************************)
(* C2.  For an existing file with well-formed numeric columns,             *)
(* process_and_analyze never raises and ends with the scatter plot, the    *)
(* fitted line, labels, legend, title and grid drawn and displayed.        *)
(***************************************************************************)
\* both columns present, and at least two complete rows with different currents
WellFormed(f) ==
  /\ f.exists
  /\ HasFields(f)
  /\ \E a, b \in CompleteLines(f) :
       f.rows[a][FieldOf(f, "Current_A")] # f.rows[b][FieldOf(f, "Current_A")]

C2_EveryCallDisplays ==
  (AnalyzerEntered /\ WellFormed(fs[filename])) =>
    /\ pc # "raised"
    /\ exc = "none"
    /\ pc = "done" =>
         /\ figure.scatter /\ figure.line /\ figure.title /\ figure.xlabel
         /\ figure.ylabel /\ figure.legend /\ figure.grid /\ figure.shown

(***************************************************************************)
(* C3.  In a run of the script the generator runs if and only if           *)
(* experiment_data.csv is absent at start-up, and then before the          *)
(* analyzer; the analyzer is invoked afterwards in both cases, on that     *)
(* same path.                                                              *)
(***************************************************************************)
C3_ScriptControlFlow ==
  /\ (entry = "script" /\ ~Terminated) => ENABLED Next
  /\ (entry = "script" /\ pc # "main") =>
    LET generator == pc = "create" \/ CallsOf("write") # {}
        analyzer == {k \in 1..Len(io) : io[k].by = "process_and_analyze"}
    IN  /\ generator <=> ~fs0[data_file].exists
        /\ filename = data_file
        /\ \A k \in CallsOf("write") :
             /\ io[k] = Call("write", data_file, "create_dummy_data")
             /\ \A a \in analyzer : k < a
        /\ \A a \in analyzer : io[a].path = data_file
        /\ pc = "create" => analyzer = {}
        /\ pc \notin {"create", "analyze"} =>
             \E a \in analyzer : io[a] = Call("exists", data_file, "process_and_analyze")

C3_Witness ==
  /\ entry = "script"
  /\ Terminated
  /\ CallsOf("write") = {2}
  /\ io[3] = Call("exists", data_file, "process_and_analyze")

(***************************************************************************)
(* C4.  The row count reported after cleaning is the raw row count minus   *)
(* the number of rows with a missing value in any field; for the           *)
(* generator's file that is 48 of 50.                                      *)
(***************************************************************************)
C4_CleanedRowCount ==
  Printed("Cleaned data shape") # {} =>
    LET f == fs[filename]
        incomplete == {k \in 1..Len(f.rows) : MissingOnDisk(f.rows[k])}
    IN  /\ Cardinality(Printed("Raw data shape")) = 1
        /\ Cardinality(Printed("Cleaned data shape")) = 1
        /\ Reported("Raw data shape") = Len(f.rows)
        /\ Reported("Cleaned data shape")
             = Reported("Raw data shape") - Cardinality(incomplete)
        /\ f = GeneratedFile =>
             /\ Reported("Raw data shape") = 50
             /\ Reported("Cleaned data shape") = 48

C4_Witness ==
  /\ Printed("Cleaned data shape") # {}
  /\ fs[filename] = GeneratedFile
  /\ Reported("Cleaned data shape") = 48
  /\ Reported("Raw data shape") = 50

(***************************************************************************)
(* C5.  From the extraction of the arrays onwards the dataset in use has   *)
(* no record with a missing value, whatever was missing in the file and in *)
(* whichever column.                                                       *)
(***************************************************************************)
C5_NoMissingInAnalysis ==
  (pc = "extract" \/ AfterExtraction) =>
    /\ ~AnyNull(df)
    /\ ~AnyNaN(current)
    /\ ~AnyNaN(voltage)
    /\ pc \in {"scatter", "polyfit", "plot"} /\ Len(voltage) > 0 =>
         ~stats.nan /\ ~correlation.nan

\* a file with a missing current in one row and a missing voltage in another
C5_Witness ==
  /\ pc = "plot"
  /\ HasFields(fs[filename])
  /\ \E a, b \in 1..Len(fs[filename].rows) :
       /\ fs[filename].rows[a][FieldOf(fs[filename], "Current_A")] = <<>>
       /\ fs[filename].rows[b][FieldOf(fs[filename], "Voltage_V")] = <<>>
  /\ Len(current) > 0

(***************************************************************************)
(* C6.  On a file with no missing value the analyzer drops no row: the     *)
(* cleaned row count equals the raw one and the data are unchanged; and    *)
(* cleaning what is already cleaned returns it unchanged.                  *)
(***************************************************************************)
C6_CleanFileUnchanged ==
  Printed("Cleaned data shape") # {} =>
    /\ CompleteLines(fs[filename]) = 1..Len(fs[filename].rows) =>
         /\ Reported("Cleaned data shape") = Reported("Raw data shape")
         /\ Reported("Cleaned data shape") = Len(fs[filename].rows)
         /\ Printed("Missing values detected") = {}
         /\ pc = "extract" => ToCsv(df) = fs[filename]
    /\ pc = "extract" => Cleaned(df) = df /\ Len(DropNa(df).rows) = Len(df.rows)

\* the analyzer run on the generator's file after it was cleaned and saved
C6_Witness ==
  /\ pc = "extract"
  /\ fs[filename] = ToCsv(DropNa(GenFrame))
  /\ Len(df.rows) = 48
  /\ Reported("Raw data shape") = 48

(***************************************************************************)
(* C7.  Whatever the target held before, create_dummy_data leaves a file   *)
(* with header Current_A,Voltage_V and exactly 50 rows, whose currents are *)
(* evenly spaced from 0 to 10 A and never missing, and whose voltages are  *)
(* missing exactly at row indices 5 and 15.                                *)
(***************************************************************************)
C7_GeneratedFileShape ==
  CallsOf("write") # {} =>
    LET f == fs[filename]
    IN  /\ f.exists
        /\ f.header = <<"Current_A", "Voltage_V">>
        /\ Len(f.rows) = 50
        /\ \A k \in 1..Len(f.rows) : Len(f.rows[k]) = 2 /\ f.rows[k][1] # <<>>
        \* 0 A and 10 A, in units of 1/49 A
        /\ f.rows[1][1] = <<0>>
        /\ f.rows[50][1] = <<10 * 49>>
        /\ \A k \in 1..49 : f.rows[k + 1][1][1] - f.rows[k][1][1] = 10
        \* 0-based indices 5 and 15
        /\ {k \in 1..Len(f.rows) : f.rows[k][2] = <<>>} = {6, 16}

\* the generator called on a path that held another dataset
C7_Witness ==
  /\ entry = "generate"
  /\ pc = "done"
  /\ fs0[filename].exists
  /\ fs0[filename].header = ForeignColumns
  /\ CallsOf("write") = {1}

(***************************************************************************)
(* C8.  In a run of the script the CSV file is written at most once, only  *)
(* by the generator and only before the analyzer reads it, and is read     *)
(* exactly once, by the analyzer; the analyzer leaves every file as it     *)
(* found it, and a file present at start-up is never overwritten.          *)
(***************************************************************************)
C8_FileAccess ==
  LET writes == CallsOf("write")
      reads == CallsOf("read")
  IN  /\ \A k \in writes : io[k].by = "create_dummy_data"
      /\ \A k \in reads : io[k].by = "process_and_analyze"
      /\ entry = "script" =>
           /\ Cardinality(writes) <= 1
           /\ Cardinality(reads) <= 1
           /\ \A k \in writes \cup reads : io[k].path = data_file
           /\ \A w \in writes, r \in reads : w < r
           /\ Terminated => Cardinality(reads) = 1
           /\ fs0[data_file].exists => (writes = {} /\ fs = fs0)
           /\ fs[other_file] = fs0[other_file]
      /\ AnalyzerEntered =>
           fs = (IF writes = {} THEN fs0
                 ELSE [fs0 EXCEPT ![filename] = GeneratedFile])

C8_Witness ==
  /\ entry = "script"
  /\ Terminated
  /\ ~fs0[data_file].exists
  /\ CallsOf("write") = {2}
  /\ CallsOf("read") = {4}
  /\ fs[data_file] = GeneratedFile

(***************************************************************************)
(* C9.  For the generator's dataset, cleaned, the least-squares slope of   *)
(* voltage against current is close to 5 (here: within 0.25 of it) and the *)
(* Pearson correlation of current and voltage is close to 1 (here: at      *)
(* least 0.95).                                                            *)
(***************************************************************************)
RECURSIVE ISqrtFrom(_, _)
\* Newton's iteration from above: the integer part of the square root of v
ISqrtFrom(v, r) == IF r * r <= v THEN r ELSE ISqrtFrom(v, (r + v \div r) \div 2)
ISqrt(v) == IF v = 0 THEN 0 ELSE ISqrtFrom(v, IF v > 46340 THEN 46340 ELSE v)

\* sab - sa*sb/n rounded up: the sum of (a - mean a)(b - mean b), for sb >= 0
DevUpper(sab, sa, sb, n) == sab - (sa \div n) * sb - ((sa % n) * sb) \div n

\* |m - 5| <= 1/4, with m = (n sxy - sx sy) / (n sxx - sx^2)
SlopeNearFive(f) ==
  LET num == f.n * f.sxy - f.sx * f.sy
      den == f.n * f.sxx - f.sx * f.sx
  IN  den > 0 /\ 19 * den <= 4 * num /\ 4 * num <= 21 * den

\* r >= 95/100, with r = cxy / (sqrt(cxx) sqrt(cyy)) over the centred sums:
\* cxy is taken rounded down, sqrt(cxx) and sqrt(cyy) rounded up
CorrelationNearOne(c) ==
  LET cxy == DevUpper(c.sxy, c.sx, c.sy, c.n) - 1
      rx == ISqrt(DevUpper(c.sxx, c.sx, c.sx, c.n)) + 1
      ry == ISqrt(DevUpper(c.syy, c.sy, c.sy, c.n)) + 1
  IN  c.sy >= 0 /\ c.sx >= 0 /\ 100 * cxy >= 95 * rx * ry

C9_SlopeAndCorrelation ==
  (AnalyzerEntered /\ fs[filename] = GeneratedFile) =>
    /\ ~correlation.nan => correlation.n = 48 /\ CorrelationNearOne(correlation)
    /\ ~fit.nan => fit.n = 48 /\ SlopeNearFive(fit)
    /\ pc \in {"scatter", "polyfit", "plot"} \/ Terminated => ~correlation.nan
    /\ pc = "plot" \/ Terminated => ~fit.nan

C9_Witness ==
  /\ AnalyzerEntered
  /\ fs[filename] = GeneratedFile
  /\ pc = "plot"
  /\ ~fit.nan /\ SlopeNearFive(fit)
  /\ ~correlation.nan /\ CorrelationNearOne(correlation)

(***************************************************************************)
(* C10.  Cleaning keeps exactly the records of the loaded file that have   *)
(* no missing field, in their order and with both values unchanged: the    *)
(* current and voltage arrays have equal length, and entry k of each is    *)
(* taken from the k-th complete record of the file.                        *)
(***************************************************************************)
C10_CleaningKeepsCompleteRecords ==
  AfterExtraction =>
    LET f == fs[filename]
        kept == CompleteLines(f)
        pos(i) == Cardinality({j \in kept : j <= i})
    IN  /\ Len(current) = Cardinality(kept)
        /\ Len(voltage) = Len(current)
        /\ Len(df.rows) = Len(current)
        /\ \A i \in kept :
             /\ current[pos(i)] = Num(f.rows[i][FieldOf(f, "Current_A")][1])
             /\ voltage[pos(i)] = Num(f.rows[i][FieldOf(f, "Voltage_V")][1])

\* the generator's file: the record after the first dropped one moves up
C10_Witness ==
  /\ pc = "stats"
  /\ fs[filename] = GeneratedFile
  /\ Len(current) = 48
  /\ current[6] = Num(60)
  /\ voltage[6] = Num(OhmVoltage(7))

=============================================================================
